---- MODULE Spec2Model ----
(***************************************************************************)
(* Model of src/server.mjs: the EasyBusy MCP relay.  One process that      *)
(* checks its API key at start-up, answers HTTP on /health and /mcp, and   *)
(* serves JSON-RPC over WebSocket, relaying tools/call to the upstream     *)
(* API.  The listing holds two revisions of the program (lines 1-229 and   *)
(* lines 231-488); `version` says which one is running.                    *)
(***************************************************************************)
EXTENDS Integers, Sequences, FiniteSets, TLC

VARIABLES
  version,   \* 1: lines 1-229, 2: lines 231-488
  apiKey,    \* process.env.EASYBUSY_API_KEY, a JS value
  pc,        \* "init", "exited", "listening", "crashed"
  exitCode,  \* the process's exit code, -1 while it runs
  conns,     \* number of WebSocket connections accepted so far
  inbox,     \* one record per message event: the handler invocation's state
  sent,      \* frames the server has sent, in order
  upstream,  \* HTTP requests issued to the upstream API, in order
  httpLog    \* HTTP exchanges of the listener, in order

vars == <<version, apiKey, pc, exitCode, conns, inbox, sent, upstream, httpLog>>

(***************************************************************************)
(* Bounds                                                                  *)
(***************************************************************************)
MaxEvents == 2     \* inbound events (WebSocket messages + HTTP requests)
MaxConns == 2      \* WebSocket connections
MaxToolMsgs == 1   \* messages in the tool-dispatch specification

(***************************************************************************)
(* JavaScript values                                                       *)
(***************************************************************************)
Undefined == [t |-> "undefined"]
Null == [t |-> "null"]
Num(n) == [t |-> "num", n |-> n]
Str(s) == [t |-> "str", s |-> s]
Tmpl(parts) == [t |-> "str", parts |-> parts]
Arr(items) == [t |-> "arr", items |-> items]
Obj(f) == [t |-> "obj", f |-> f]

\* v.k for a value that is neither null nor undefined
Get(v, k) == IF v.t = "obj" /\ k \in DOMAIN v.f THEN v.f[k] ELSE Undefined

\* !v
Falsy(v) == v.t \in {"undefined", "null"} \/ v = Num(0) \/ v = Str("")

\* a || b
OrElse(a, b) == IF Falsy(a) THEN b ELSE a

\* a ?? b
Coalesce(a, b) == IF a.t \in {"undefined", "null"} THEN b ELSE a

\* String(v) and `${v}` for the values that occur
ToStr(v) ==
  CASE v.t = "undefined" -> "undefined"
    [] v.t = "null" -> "null"
    [] v.t = "num" -> ToString(v.n)
    [] v.t = "str" /\ "s" \in DOMAIN v -> v.s
    [] OTHER -> "[object Object]"

\* A text is either well-formed JSON (with the value it denotes) or not.
Json(v) == [wf |-> TRUE, value |-> v]
NotJson(raw) == [wf |-> FALSE, raw |-> raw]

\* JSON.parse: a value, or a SyntaxError
JSONParse(text) ==
  IF text.wf THEN [ok |-> TRUE, value |-> text.value] ELSE [ok |-> FALSE]

RECURSIVE Strip(_)
\* what JSON.stringify keeps of a value: properties that are undefined are dropped
Strip(v) ==
  IF v.t = "obj"
    THEN Obj([k \in {j \in DOMAIN v.f : v.f[j].t # "undefined"} |-> Strip(v.f[k])])
    ELSE v

JSONStringify(v) == Json(Strip(v))

(***************************************************************************)
(* Upstream client: easybusyFetch                                          *)
(***************************************************************************)
NoQuery == [k \in {} |-> Undefined]

\* the options easybusyFetch defaults to: { method = 'GET', query, body } = {}
DefaultOpts == [method |-> "GET", query |-> NoQuery, body |-> Undefined]

\* url.searchParams after the loop: every entry that is not null or undefined
SearchParams(query) ==
  [k \in {j \in DOMAIN query : query[j].t \notin {"undefined", "null"}} |->
     ToStr(query[k])]

\* the request easybusyFetch hands to fetch()
FetchRequest(path, opts) ==
  [method |-> opts.method,
   pathname |-> path,
   search |-> SearchParams(opts.query),
   apiKeyHeader |-> apiKey,
   body |-> IF Falsy(opts.body) THEN Undefined ELSE JSONStringify(opts.body)]

\* res.ok
Ok(status) == status >= 200 /\ status <= 299

\* json = txt ? JSON.parse(txt) : null, falling back to txt itself
ParsedBody(txt) ==
  IF ~txt.wf /\ txt.raw = "" THEN Null
  ELSE IF JSONParse(txt).ok THEN JSONParse(txt).value
  ELSE Str(txt.raw)

FailedMessage(req, res) ==
  Tmpl([tpl |-> "EasyBusy ${method} ${url.pathname} failed (${res.status}): ${txt}",
        method |-> req.method, pathname |-> req.pathname,
        status |-> res.status, txt |-> res.text])

\* easybusyFetch without its res.ok check
FetchOutcomeUnchecked(req, res) == [threw |-> FALSE, value |-> ParsedBody(res.text)]

\* what easybusyFetch does once fetch() has resolved with res
FetchOutcome(req, res) ==
  IF ~Ok(res.status)
    THEN [threw |-> TRUE, value |-> FailedMessage(req, res)]
    ELSE [threw |-> FALSE, value |-> ParsedBody(res.text)]

\* fetch() rejects on a network failure
NetworkError == Str("fetch failed")

(***************************************************************************)
(* Tool registry and dispatcher                                            *)
(***************************************************************************)
tools ==
  <<"easybusy_company_features", "easybusy_company_languages",
    "easybusy_bookable_services", "easybusy_bookable_doctors",
    "easybusy_available_slots", "easybusy_request_slot">>

ToolNames == {tools[i] : i \in DOMAIN tools}

UnknownToolMessage(name) ==
  Tmpl([tpl |-> "Unknown tool: ${name}", name |-> ToStr(name)])

Issue(path, opts) == [threw |-> FALSE, request |-> FetchRequest(path, opts)]

\* handleToolCall with the doctors case calling the services path
handleToolCallWrongPath(name, args) ==
  CASE name = Str("easybusy_company_features") ->
         Issue("/v2/company/features", DefaultOpts)
    [] name = Str("easybusy_company_languages") ->
         Issue("/v2/company/languages", DefaultOpts)
    [] name = Str("easybusy_bookable_services") ->
         Issue("/v2/simple-booking/bookable-services",
               [DefaultOpts EXCEPT !.query =
                  [languageCode |-> Get(args, "languageCode")]])
    [] name = Str("easybusy_bookable_doctors") ->
         Issue("/v2/simple-booking/bookable-services", DefaultOpts)
    [] name = Str("easybusy_available_slots") ->
         Issue("/v2/simple-booking/available-slots",
               [DefaultOpts EXCEPT !.query =
                  [languageCode |-> Get(args, "languageCode"),
                   from |-> Get(args, "from"),
                   to |-> Get(args, "to"),
                   serviceId |-> Get(args, "serviceId"),
                   doctorId |-> Get(args, "doctorId")]])
    [] name = Str("easybusy_request_slot") ->
         Issue("/v2/simple-booking/request-slot/" \o ToStr(Get(args, "slotId")),
               [DefaultOpts EXCEPT
                  !.method = "POST",
                  !.body = Obj([serviceId |-> Get(args, "serviceId"),
                                message |-> Coalesce(Get(args, "message"), Str("")),
                                patientInfo |-> Get(args, "patientInfo")])])
    [] OTHER -> [threw |-> TRUE, value |-> UnknownToolMessage(name)]

\* handleToolCall up to its call of fetch(): the request issued, or the error thrown
handleToolCall(name, args) ==
  CASE name = Str("easybusy_company_features") ->
         Issue("/v2/company/features", DefaultOpts)
    [] name = Str("easybusy_company_languages") ->
         Issue("/v2/company/languages", DefaultOpts)
    [] name = Str("easybusy_bookable_services") ->
         Issue("/v2/simple-booking/bookable-services",
               [DefaultOpts EXCEPT !.query =
                  [languageCode |-> Get(args, "languageCode")]])
    [] name = Str("easybusy_bookable_doctors") ->
         Issue("/v2/simple-booking/bookable-doctors", DefaultOpts)
    [] name = Str("easybusy_available_slots") ->
         Issue("/v2/simple-booking/available-slots",
               [DefaultOpts EXCEPT !.query =
                  [languageCode |-> Get(args, "languageCode"),
                   from |-> Get(args, "from"),
                   to |-> Get(args, "to"),
                   serviceId |-> Get(args, "serviceId"),
                   doctorId |-> Get(args, "doctorId")]])
    [] name = Str("easybusy_request_slot") ->
         Issue("/v2/simple-booking/request-slot/" \o ToStr(Get(args, "slotId")),
               [DefaultOpts EXCEPT
                  !.method = "POST",
                  !.body = Obj([serviceId |-> Get(args, "serviceId"),
                                message |-> Coalesce(Get(args, "message"), Str("")),
                                patientInfo |-> Get(args, "patientInfo")])])
    [] OTHER -> [threw |-> TRUE, value |-> UnknownToolMessage(name)]

(***************************************************************************)
(* HTTP listener                                                           *)
(***************************************************************************)
Uptime == [t |-> "num", sym |-> "process.uptime()"]

HealthResponse ==
  [status |-> 200, contentType |-> "application/json",
   body |-> JSONStringify(Obj([status |-> Str("ok"), uptime |-> Uptime]))]

ReadyResponse ==
  [status |-> 200, contentType |-> "application/json",
   body |-> JSONStringify(Obj([status |-> Str("ready"), mcp |-> [t |-> "bool", b |-> TRUE]]))]

NotFoundResponse == [status |-> 404, contentType |-> "", body |-> Undefined]

\* the http.createServer callback of revision v
RequestListener(v, req) ==
  IF req.url = "/health" THEN HealthResponse
  ELSE IF req.url = "/mcp" /\ (v = 1 \/ req.method = "GET") THEN ReadyResponse
  ELSE NotFoundResponse

(***************************************************************************)
(* JSON-RPC envelopes                                                      *)
(***************************************************************************)
\* an error envelope that always carries id null, as the parse-error reply does
ErrorReplyNullId(id, code, message) ==
  JSONStringify(Obj([jsonrpc |-> Str("2.0"), id |-> Null,
                     error |-> Obj([code |-> Num(code), message |-> message])]))

ErrorReply(id, code, message) ==
  JSONStringify(Obj([jsonrpc |-> Str("2.0"), id |-> id,
                     error |-> Obj([code |-> Num(code), message |-> message])]))

ResultReply(id, result) ==
  JSONStringify(Obj([jsonrpc |-> Str("2.0"), id |-> id, result |-> result]))

ToolsListResult ==
  Obj([tools |-> Arr([i \in DOMAIN tools |-> Str(tools[i])]), nextCursor |-> Null])

\* err.message in revision 1, err.message || 'Internal MCP error' in revision 2
CaughtMessage(v, message) ==
  IF v = 2 THEN OrElse(message, Str("Internal MCP error")) ELSE message


(***************************************************************************)
(* WebSocket message handler                                               *)
(***************************************************************************)
EmptyObject == Obj([k \in {} |-> Undefined])

Done(id, frames) == [pc |-> "done", id |-> id, out |-> frames, request |-> Undefined]

Awaiting(id, req) == [pc |-> "await", id |-> id, out |-> <<>>, request |-> req]

\* the handler's promise rejects: nothing is sent, nothing catches the error
Rejected == [pc |-> "rejected", id |-> Undefined, out |-> <<>>, request |-> Undefined]

\* the tools/call branch outside the try block: what handleToolCall throws is not caught
ToolsCallUncaught(v, id, params) ==
  LET p == OrElse(params, EmptyObject)
      name == Get(p, "name")
      args == OrElse(Get(p, "arguments"), EmptyObject)
      r == handleToolCall(name, args)
  IN IF r.threw THEN Rejected ELSE Awaiting(id, r.request)

\* the tools/call branch up to its await, inside the try block
ToolsCall(v, id, params) ==
  LET p == OrElse(params, EmptyObject)
      name == Get(p, "name")
      args == OrElse(Get(p, "arguments"), EmptyObject)
      r == handleToolCall(name, args)
  IN IF r.threw
       THEN Done(id, <<ErrorReply(id, -32000, CaughtMessage(v, r.value))>>)
       ELSE Awaiting(id, r.request)

\* the dispatch without the return that ends the tools/list branch
DispatchFallsThrough(v, id, method, params) ==
  IF method = Str("tools/list")
    THEN Done(id, <<ResultReply(id, ToolsListResult),
                    ErrorReply(id, -32601, Str("Unknown method"))>>)
  ELSE IF method = Str("tools/call")
    THEN ToolsCall(v, id, params)
  ELSE Done(id, <<ErrorReply(id, -32601, Str("Unknown method"))>>)

\* the method dispatch inside the try block
Dispatch(v, id, method, params) ==
  IF method = Str("tools/list")
    THEN Done(id, <<ResultReply(id, ToolsListResult)>>)
  ELSE IF method = Str("tools/call")
    THEN ToolsCall(v, id, params)
  ELSE Done(id, <<ErrorReply(id, -32601, Str("Unknown method"))>>)

\* the handler without the return that ends the parse-error branch: msg is
\* undefined and its destructuring throws
OnMessageNoReturn(v, raw) ==
  LET parsed == JSONParse(raw)
  IN IF ~parsed.ok
       THEN [Rejected EXCEPT !.out = <<ErrorReply(Null, -32700, Str("Invalid JSON"))>>]
     ELSE IF parsed.value.t \in {"null", "undefined"}
       THEN Rejected
     ELSE Dispatch(v, Get(parsed.value, "id"), Get(parsed.value, "method"),
                   Get(parsed.value, "params"))

\* the message handler from its start to its first await or its end:
\* const { id, method, params } = msg stands before the try block and throws
\* a TypeError when msg is null
OnMessage(v, raw) ==
  LET parsed == JSONParse(raw)
  IN IF ~parsed.ok
       THEN Done(Undefined, <<ErrorReply(Null, -32700, Str("Invalid JSON"))>>)
     ELSE IF parsed.value.t \in {"null", "undefined"}
       THEN Rejected
     ELSE Dispatch(v, Get(parsed.value, "id"), Get(parsed.value, "method"),
                   Get(parsed.value, "params"))

\* the handler from the await of handleToolCall to its end; settled is the
\* outcome of easybusyFetch: [threw, value]
AfterAwait(v, id, settled) ==
  IF settled.threw
    THEN <<ErrorReply(id, -32000, CaughtMessage(v, settled.value))>>
    ELSE <<ResultReply(id, settled.value)>>

\* socket.send of each frame, by handler invocation `by` on its own socket c
Send(c, by, frames) == [k \in DOMAIN frames |-> [conn |-> c, data |-> frames[k], by |-> by]]

\* what the runtime does with an unhandled rejection: Node 15 and later end
\* the process with exit code 1, earlier versions print a warning and go on
UnhandledRejection == {"crashed", "listening"}

(***************************************************************************)
(* Inputs                                                                  *)
(***************************************************************************)
EnvKeys == {Undefined, Str(""), Str("secret")}

Statuses == {201, 404, 500}

Bodies == {NotJson(""), NotJson("server error"), Json(Obj([bookingId |-> Num(1)]))}

\* upstream responses of the tool-dispatch specification
Responses == [status : Statuses, text : Bodies]

\* upstream responses of the server specification: the two examples of the spec
ExampleResponses ==
  {[status |-> 201, text |-> Json(Obj([bookingId |-> Num(1)]))],
   [status |-> 500, text |-> NotJson("server error")]}

HttpRequests == [method : {"GET", "POST"}, url : {"/health", "/mcp", "/", "/health?probe=1"}]

\* JSON.stringify of a JSON-RPC request on the client's side
Request(id, method, params) ==
  JSONStringify(Obj([jsonrpc |-> Str("2.0"), id |-> id, method |-> method, params |-> params]))

CallParams(name, args) == Obj([name |-> name, arguments |-> args])

\* the required arguments of each tool, with the values of the spec's example
ValidArgs(name) ==
  CASE name = "easybusy_bookable_services" -> Obj([languageCode |-> Str("en")])
    [] name = "easybusy_available_slots" ->
         Obj([languageCode |-> Str("en"), from |-> Str("2025-01-01"),
              to |-> Str("2025-01-02"), serviceId |-> Num(7), doctorId |-> Num(3)])
    [] name = "easybusy_request_slot" ->
         Obj([slotId |-> Num(42), serviceId |-> Num(7),
              patientInfo |-> Obj([name |-> Str("A")])])
    [] OTHER -> EmptyObject

\* frames of the server specification: one per path through the handler
Frames ==
  {NotJson("hello"), Json(Null), Json(Num(5)),
   Request(Num(1), Str("tools/list"), Undefined),
   Request(Num(2), Str("ping"), Undefined),
   Request(Num(1), Str("tools/call"), CallParams(Str("easybusy_company_features"), Undefined)),
   Request(Num(2), Str("tools/call"),
           CallParams(Str("easybusy_request_slot"), ValidArgs("easybusy_request_slot"))),
   Request(Undefined, Str("tools/call"), CallParams(Str("no_such_tool"), Undefined))}

Ids == {Undefined, Num(1)}

AllParams ==
  {Undefined, CallParams(Undefined, Undefined), CallParams(Str("no_such_tool"), Undefined)}
  \cup {CallParams(Str(n), ValidArgs(n)) : n \in ToolNames}
  \cup {CallParams(Str(n), Undefined) :
          n \in {"easybusy_bookable_services", "easybusy_available_slots",
                 "easybusy_request_slot"}}

\* frames of the tool-dispatch specification
ToolFrames ==
  {NotJson("hello"), NotJson(""), NotJson("{\"id\": 1, \"method\": \"tools/list\""),
   Json(Null), Json(Num(5))}
  \cup {Request(id, Str("tools/call"), p) : id \in Ids, p \in AllParams}
  \cup {Request(id, m, Undefined) : id \in Ids, m \in {Undefined, Str("tools/list"), Str("ping")}}

(***************************************************************************)
(* The process                                                             *)
(***************************************************************************)
Init ==
  /\ version \in {1, 2}
  /\ apiKey \in EnvKeys
  /\ pc = "init"
  /\ exitCode = -1
  /\ conns = 0
  /\ inbox = <<>>
  /\ sent = <<>>
  /\ upstream = <<>>
  /\ httpLog = <<>>

\* module evaluation without the API key check
StartUnchecked ==
  /\ pc = "init"
  /\ pc' = "listening" /\ exitCode' = exitCode
  /\ UNCHANGED <<version, apiKey, conns, inbox, sent, upstream, httpLog>>

\* module evaluation: the API key check, then server.listen
Start ==
  /\ pc = "init"
  /\ IF Falsy(apiKey)
       THEN pc' = "exited" /\ exitCode' = 1
       ELSE pc' = "listening" /\ exitCode' = exitCode
  /\ UNCHANGED <<version, apiKey, conns, inbox, sent, upstream, httpLog>>

\* an HTTP request reaches the listener
HttpRequest(req) ==
  /\ pc = "listening"
  /\ httpLog' = Append(httpLog, [req |-> req, res |-> RequestListener(version, req)])
  /\ UNCHANGED <<version, apiKey, pc, exitCode, conns, inbox, sent, upstream>>

\* wss 'connection': the message listener is registered on the new socket
Connect ==
  /\ pc = "listening"
  /\ conns' = conns + 1
  /\ UNCHANGED <<version, apiKey, pc, exitCode, inbox, sent, upstream, httpLog>>

NoResponse == [status |-> 0, text |-> NotJson("")]

\* a handler that does not yield at its await: no message is taken while a
\* tools/call is pending
RunHandlerSerial(c, raw, h) ==
  /\ pc = "listening"
  /\ c \in 1..conns
  /\ \A i \in DOMAIN inbox : inbox[i].pc # "await"
  /\ LET by == Len(inbox) + 1
     IN /\ inbox' = Append(inbox, [conn |-> c, data |-> raw, pc |-> h.pc, id |-> h.id])
        /\ sent' = sent \o Send(c, by, h.out)
        /\ upstream' =
             IF h.pc = "await"
               THEN Append(upstream, [by |-> by, request |-> h.request,
                                      state |-> "pending", res |-> NoResponse])
               ELSE upstream
        /\ IF h.pc = "rejected"
             THEN \E after \in UnhandledRejection :
                    /\ pc' = after
                    /\ exitCode' = IF after = "crashed" THEN 1 ELSE exitCode
             ELSE UNCHANGED <<pc, exitCode>>
  /\ UNCHANGED <<version, apiKey, conns, httpLog>>

\* the handler invocation for frame raw on socket c, h being what the handler
\* does up to its first await or its end: its frames are sent, its fetch is
\* issued, and a rejection of its promise goes to the runtime
RunHandler(c, raw, h) ==
  /\ pc = "listening"
  /\ c \in 1..conns
  /\ LET by == Len(inbox) + 1
     IN /\ inbox' = Append(inbox, [conn |-> c, data |-> raw, pc |-> h.pc, id |-> h.id])
        /\ sent' = sent \o Send(c, by, h.out)
        /\ upstream' =
             IF h.pc = "await"
               THEN Append(upstream, [by |-> by, request |-> h.request,
                                      state |-> "pending", res |-> NoResponse])
               ELSE upstream
        /\ IF h.pc = "rejected"
             THEN \E after \in UnhandledRejection :
                    /\ pc' = after
                    /\ exitCode' = IF after = "crashed" THEN 1 ELSE exitCode
             ELSE UNCHANGED <<pc, exitCode>>
  /\ UNCHANGED <<version, apiKey, conns, httpLog>>

\* a 'message' event on socket c
Message(c, raw) == \E h \in {OnMessage(version, raw)} : RunHandler(c, raw, h)

\* fetch() number k resolves with res and the body is read: the handler that
\* awaits it resumes with what easybusyFetch returns or throws
FetchResolves(k, res) ==
  /\ pc = "listening"
  /\ k \in DOMAIN upstream
  /\ upstream[k].state = "pending"
  /\ LET by == upstream[k].by
         settled == FetchOutcome(upstream[k].request, res)
     IN /\ inbox' = [inbox EXCEPT ![by].pc = "done"]
        /\ sent' = sent \o Send(inbox[by].conn, by, AfterAwait(version, inbox[by].id, settled))
  /\ upstream' = [upstream EXCEPT ![k].state = "resolved", ![k].res = res]
  /\ UNCHANGED <<version, apiKey, pc, exitCode, conns, httpLog>>

\* fetch() number k rejects (network failure): the handler resumes in its catch
FetchRejects(k) ==
  /\ pc = "listening"
  /\ k \in DOMAIN upstream
  /\ upstream[k].state = "pending"
  /\ LET by == upstream[k].by
         settled == [threw |-> TRUE, value |-> NetworkError]
     IN /\ inbox' = [inbox EXCEPT ![by].pc = "done"]
        /\ sent' = sent \o Send(inbox[by].conn, by, AfterAwait(version, inbox[by].id, settled))
  /\ upstream' = [upstream EXCEPT ![k].state = "failed"]
  /\ UNCHANGED <<version, apiKey, pc, exitCode, conns, httpLog>>

Events == Len(inbox) + Len(httpLog)

Next ==
  \/ Start
  \/ \E req \in HttpRequests : Events < MaxEvents /\ HttpRequest(req)
  \/ conns < MaxConns /\ Connect
  \/ \E c \in 1..MaxConns, raw \in Frames : Events < MaxEvents /\ Message(c, raw)
  \/ \E k \in 1..MaxEvents, res \in ExampleResponses : FetchResolves(k, res)
  \/ \E k \in 1..MaxEvents : FetchRejects(k)

Spec == Init /\ [][Next]_vars

NextTools ==
  \/ Start
  \/ conns = 0 /\ Connect
  \/ \E raw \in ToolFrames : Len(inbox) < MaxToolMsgs /\ Message(1, raw)
  \/ \E k \in 1..MaxToolMsgs, res \in Responses : FetchResolves(k, res)
  \/ \E k \in 1..MaxToolMsgs : FetchRejects(k)

\* the tool-dispatch specification: one socket, every tool and every response
SpecTools == Init /\ [][NextTools]_vars

(***************************************************************************)
(* Vocabulary of the properties                                            *)
(***************************************************************************)
RepliesBy(i) == {k \in DOMAIN sent : sent[k].by = i}

CallsBy(i) == {k \in DOMAIN upstream : upstream[k].by = i}

Has(o, field) == o.t = "obj" /\ field \in DOMAIN o.f

\* an error envelope with the given code, and no result
IsError(o, code) ==
  /\ Has(o, "error") /\ ~Has(o, "result")
  /\ Get(Get(o, "error"), "code") = Num(code)

\* a result envelope, and no error
IsResult(o) == Has(o, "result") /\ ~Has(o, "error")

\* handler i has sent exactly one frame, and the frame satisfies P
OneReply(i, P(_)) ==
  /\ Cardinality(RepliesBy(i)) = 1
  /\ \A k \in RepliesBy(i) : sent[k].data.wf /\ P(sent[k].data.value)

\* the frame is a JSON object: an RPC request
IsRequest(raw) == raw.wf /\ raw.value.t = "obj"

MethodOf(raw) == Get(raw.value, "method")

ToolOf(raw) ==
  LET p == Get(raw.value, "params") IN IF p.t = "obj" THEN Get(p, "name") ELSE Undefined

\* the id a reply to the frame has to carry: null when the frame does not parse
IdOf(raw) == IF raw.wf THEN (IF raw.value.t = "obj" THEN Get(raw.value, "id") ELSE Undefined) ELSE Null

\* the reply carries id: an absent id is absent from the reply as well
CarriesId(o, id) == IF id = Undefined THEN ~Has(o, "id") ELSE Has(o, "id") /\ o.f["id"] = id

\* the table of section 4.2: the upstream call of each tool with its required arguments
Documented(n) ==
  CASE n = "easybusy_company_features" -> [method |-> "GET", pathname |-> "/v2/company/features"]
    [] n = "easybusy_company_languages" -> [method |-> "GET", pathname |-> "/v2/company/languages"]
    [] n = "easybusy_bookable_services" ->
         [method |-> "GET", pathname |-> "/v2/simple-booking/bookable-services"]
    [] n = "easybusy_bookable_doctors" ->
         [method |-> "GET", pathname |-> "/v2/simple-booking/bookable-doctors"]
    [] n = "easybusy_available_slots" ->
         [method |-> "GET", pathname |-> "/v2/simple-booking/available-slots"]
    [] n = "easybusy_request_slot" ->
         [method |-> "POST", pathname |-> "/v2/simple-booking/request-slot/42"]

\* the frame is a tools/call of tool n with its required arguments
IsValidCall(raw, n) ==
  \E id \in Ids \cup {Num(2)} :
    raw = Request(id, Str("tools/call"), CallParams(Str(n), ValidArgs(n)))

Pending == {i \in DOMAIN inbox : inbox[i].pc = "await"}

(***************************************************************************)
(* C1                                                                      *)
(***************************************************************************)
\* C1: whatever a message holds, every error raised while handling it is
\* caught and answered with an error reply: no handler invocation ends in an
\* unhandled rejection, and no message ends the process.
C1_EveryErrorIsCaught ==
  /\ pc # "crashed"
  /\ \A i \in DOMAIN inbox :
       /\ inbox[i].pc # "rejected"
       /\ inbox[i].pc = "done" => RepliesBy(i) # {}

(***************************************************************************)
(* C2                                                                      *)
(***************************************************************************)
\* C2: every frame the server sends answers a distinct message received
\* before on the same connection and carries that message's id (null for a
\* frame that does not parse): no message has two replies and no frame is
\* unsolicited.
C2_RepliesAnswerRequests ==
  /\ \A k \in DOMAIN sent :
       /\ sent[k].by \in DOMAIN inbox
       /\ sent[k].conn = inbox[sent[k].by].conn
       /\ sent[k].data.wf
       /\ CarriesId(sent[k].data.value, IdOf(inbox[sent[k].by].data))
  /\ \A k, l \in DOMAIN sent : k # l => sent[k].by # sent[l].by
  /\ Len(sent) <= Len(inbox)

\* two messages on two connections, both answered, the second one first
C2_Witness ==
  /\ Len(sent) = 2
  /\ sent[1].conn # sent[2].conn
  /\ sent[1].by = 2 /\ sent[2].by = 1
  /\ ~inbox[2].data.wf

(***************************************************************************)
(* C3                                                                      *)
(***************************************************************************)
\* C3: a tools/call of a registered tool with its required arguments issues
\* exactly one upstream call, with the documented method and path, and when
\* the upstream answers with a success status the reply's result is the
\* parsed response, unchanged.
C3_ToolCallRelaysUpstream ==
  \A i \in DOMAIN inbox : \A n \in ToolNames :
    IsValidCall(inbox[i].data, n) =>
      /\ Cardinality(CallsBy(i)) = 1
      /\ \A k \in CallsBy(i) :
           /\ upstream[k].request.method = Documented(n).method
           /\ upstream[k].request.pathname = Documented(n).pathname
           /\ upstream[k].state = "pending" => RepliesBy(i) = {}
           /\ (upstream[k].state = "resolved" /\ Ok(upstream[k].res.status)) =>
                LET expected ==
                      IF upstream[k].res.text = NotJson("") THEN Null
                      ELSE IF upstream[k].res.text.wf THEN upstream[k].res.text.value
                      ELSE Str(upstream[k].res.text.raw)
                    Good(o) == IsResult(o) /\ o.f["result"] = expected
                IN OneReply(i, Good)

\* the spec's example: request_slot for slot 42, upstream 201 {bookingId: 1}
C3_Witness ==
  \E i \in DOMAIN inbox : \E k \in CallsBy(i) : \E r \in RepliesBy(i) :
    /\ IsValidCall(inbox[i].data, "easybusy_request_slot")
    /\ upstream[k].request.method = "POST"
    /\ upstream[k].state = "resolved" /\ upstream[k].res.status = 201
    /\ sent[r].data.value.f["result"] = Obj([bookingId |-> Num(1)])

(***************************************************************************)
(* C4                                                                      *)
(***************************************************************************)
\* C4: a tools/call whose tool name is not registered (an absent name and
\* absent params included) issues no upstream call and is answered with an
\* error envelope, code -32000 and an 'Unknown tool' message, never a result.
C4_UnknownToolIsAnError ==
  \A i \in DOMAIN inbox :
    LET raw == inbox[i].data
        Good(o) ==
          /\ IsError(o, -32000)
          /\ Get(Get(o, "error"), "message") = UnknownToolMessage(ToolOf(raw))
          /\ CarriesId(o, IdOf(raw))
    IN (/\ IsRequest(raw)
        /\ MethodOf(raw) = Str("tools/call")
        /\ \A n \in ToolNames : ToolOf(raw) # Str(n)) =>
         /\ CallsBy(i) = {}
         /\ OneReply(i, Good)

\* the three cases: an unregistered name, no name, no params
C4_Witness ==
  /\ upstream = <<>>
  /\ \E i \in DOMAIN inbox :
       /\ IsRequest(inbox[i].data)
       /\ MethodOf(inbox[i].data) = Str("tools/call")
       /\ Get(inbox[i].data.value, "params") = Undefined
       /\ \E r \in RepliesBy(i) : IsError(sent[r].data.value, -32000)

(***************************************************************************)
(* C5                                                                      *)
(***************************************************************************)
\* C5: a frame that is not JSON is answered with a parse-error envelope,
\* code -32700 and id null, whatever it holds, and is not processed further:
\* the handler has ended and has issued no upstream call.
C5_ParseErrorIsAnswered ==
  \A i \in DOMAIN inbox :
    LET Good(o) == IsError(o, -32700) /\ Has(o, "id") /\ o.f["id"] = Null
    IN ~inbox[i].data.wf =>
         /\ inbox[i].pc = "done"
         /\ CallsBy(i) = {}
         /\ OneReply(i, Good)

\* a truncated request, which names an id and a method, is answered with id null
C5_Witness ==
  \E i \in DOMAIN inbox : \E r \in RepliesBy(i) :
    /\ inbox[i].data = NotJson("{\"id\": 1, \"method\": \"tools/list\"")
    /\ IsError(sent[r].data.value, -32700)

(***************************************************************************)
(* C6                                                                      *)
(***************************************************************************)
\* C6: an RPC request whose method is neither tools/list nor tools/call (a
\* request without a method included) is answered with a method-not-found
\* envelope, code -32601, that echoes the request's id, and issues no
\* upstream call.
C6_UnknownMethodIsAnError ==
  \A i \in DOMAIN inbox :
    LET raw == inbox[i].data
        Good(o) == IsError(o, -32601) /\ CarriesId(o, Get(raw.value, "id"))
    IN (IsRequest(raw) /\ MethodOf(raw) \notin {Str("tools/list"), Str("tools/call")}) =>
         /\ inbox[i].pc = "done"
         /\ CallsBy(i) = {}
         /\ OneReply(i, Good)

\* a request with an id and no method, answered with that id
C6_Witness ==
  \E i \in DOMAIN inbox : \E r \in RepliesBy(i) :
    /\ inbox[i].data = Request(Num(1), Undefined, Undefined)
    /\ IsError(sent[r].data.value, -32601)
    /\ sent[r].data.value.f["id"] = Num(1)

(***************************************************************************)
(* C7                                                                      *)
(***************************************************************************)
\* C7: when the upstream answers a tool's call with a status outside 2xx,
\* the tools/call is answered with an error envelope, code -32000, whose
\* message holds the status and the request path, with no result, and the
\* call is not retried: its handler has issued exactly one upstream request.
C7_UpstreamFailureIsAnError ==
  \A k \in DOMAIN upstream :
    LET by == upstream[k].by
        Good(o) ==
          /\ IsError(o, -32000)
          /\ Has(Get(o, "error"), "message")
          /\ Get(Get(o, "error"), "message").parts.status = upstream[k].res.status
          /\ Get(Get(o, "error"), "message").parts.pathname = upstream[k].request.pathname
          /\ CarriesId(o, IdOf(inbox[by].data))
    IN (upstream[k].state = "resolved" /\ ~Ok(upstream[k].res.status)) =>
         /\ inbox[by].pc = "done"
         /\ CallsBy(by) = {k}
         /\ OneReply(by, Good)

\* the spec's example: status 500 with body "server error"
C7_Witness ==
  \E k \in DOMAIN upstream : \E r \in RepliesBy(upstream[k].by) :
    /\ upstream[k].state = "resolved"
    /\ upstream[k].res = [status |-> 500, text |-> NotJson("server error")]
    /\ IsError(sent[r].data.value, -32000)

(***************************************************************************)
(* C8                                                                      *)
(***************************************************************************)
\* C8: the listener answers 200 to GET /health and GET /mcp only; every
\* other method and path is answered 404 with an empty body.
C8_OnlyGetIsServed ==
  \A k \in DOMAIN httpLog :
    LET req == httpLog[k].req
        res == httpLog[k].res
    IN IF req.method = "GET" /\ req.url \in {"/health", "/mcp"}
         THEN res.status = 200
         ELSE res.status = 404 /\ res.body = Undefined

(***************************************************************************)
(* C9                                                                      *)
(***************************************************************************)
\* C9: without an API key in the environment the process ends with a
\* non-zero exit code before it listens: no HTTP request is answered, no
\* connection accepted, no message handled and no upstream call issued, and
\* every upstream call carries the key.
C9_NoKeyNoService ==
  /\ apiKey \in {Undefined, Str("")} =>
       /\ pc \in {"init", "exited"}
       /\ pc = "exited" => exitCode # 0 /\ exitCode # -1
       /\ conns = 0 /\ httpLog = <<>> /\ inbox = <<>> /\ upstream = <<>> /\ sent = <<>>
  /\ \A k \in DOMAIN upstream : upstream[k].request.apiKeyHeader = Str("secret")

\* the process has ended at start-up for want of a key
C9_Witness == apiKey = Undefined /\ pc = "exited" /\ exitCode = 1


(***************************************************************************)
(* C10                                                                     *)
(***************************************************************************)
\* while a tools/call awaits its upstream response the server takes any
\* further message on any open connection
C10_NotBlocked ==
  (pc = "listening" /\ Pending # {}) =>
    \A c \in 1..conns : \A raw \in Frames :
      \E h \in {OnMessage(version, raw)} : ENABLED RunHandler(c, raw, h)

\* a message that arrives while a call is pending is handled in its own step:
\* it is answered at once unless it awaits the upstream itself, and the
\* pending calls stay pending
C10_LaterMessageHandled ==
  (Pending # {} /\ Len(inbox') = Len(inbox) + 1) =>
    LET j == Len(inbox') IN
    /\ inbox'[j].pc = "done" =>
         \E r \in DOMAIN sent' : r \notin DOMAIN sent /\ sent'[r].by = j
    /\ \A i \in Pending : inbox'[i].pc = "await" /\ \E k \in CallsBy(i) : upstream'[k] = upstream[k]

\* when the upstream call of a pending tools/call completes, with a response
\* or with a failure, that call is answered in the same step with a result
\* or an error, on its own connection and with its own id, whatever was
\* received or answered in between
C10_PendingCallAnswered ==
  \A k \in DOMAIN upstream :
    (upstream[k].state = "pending" /\ upstream'[k].state # "pending") =>
      LET i == upstream[k].by IN
      /\ inbox'[i].pc = "done"
      /\ Len(sent') = Len(sent) + 1
      /\ sent'[Len(sent')].by = i
      /\ sent'[Len(sent')].conn = inbox[i].conn
      /\ LET o == sent'[Len(sent')].data.value
         IN /\ CarriesId(o, IdOf(inbox[i].data))
            /\ IF upstream'[k].state = "resolved" /\ Ok(upstream'[k].res.status)
                 THEN IsResult(o)
                 ELSE IsError(o, -32000)

\* C10: a tools/call that waits for its upstream response blocks no other
\* work: later messages on the same or another connection are taken and
\* answered without waiting for it, and the pending call is answered when
\* its upstream call completes with a result or an error.
C10_PendingCallBlocksNothing ==
  /\ []C10_NotBlocked
  /\ [][C10_LaterMessageHandled /\ C10_PendingCallAnswered]_vars

\* replies out of order: the first message, a tools/call, is answered after
\* the second one, a tools/list on the same connection
C10_Witness ==
  /\ Len(inbox) = 2 /\ Len(sent) = 2
  /\ inbox[1].conn = inbox[2].conn
  /\ IsRequest(inbox[1].data) /\ IsRequest(inbox[2].data)
  /\ MethodOf(inbox[1].data) = Str("tools/call")
  /\ MethodOf(inbox[2].data) = Str("tools/list")
  /\ sent[1].by = 2 /\ sent[2].by = 1
  /\ IsResult(sent[2].data.value)


====
